---------------------------- MODULE Spec2Model ----------------------------
(***************************************************************************)
(* Product Health Scanner: the announcement gate of captureAndAnalyze, the  *)
(* throttled, backoff-protected remote enrichment call attemptApiAnalyze   *)
(* and the analyzer useHealthAnalyzer of                                   *)
(* src/src/product_health_scanner_react_pwa_demo.jsx, the handler of the   *)
(* analyze endpoint, src/netlify/functions/analyze.js, and the fetch       *)
(* listener of the service worker, src/public/sw.js.                       *)
(*                                                                         *)
(* Numbers.  A JavaScript number x is held as the integer x * Scale, so    *)
(* that a remote response can carry a score that is not an integer.  A     *)
(* nullable number is a sequence: <<>> is null, <<v>> is the number.  The   *)
(* analyzer computes with fractions of [0,1]: a fraction x is held as the  *)
(* integer x * Unit and quotients are truncated.  A string is held by its  *)
(* length where only its length matters.                                   *)
(*                                                                         *)
(* Time.  The code compares Date.now() - lastApiRef.current with           *)
(* baseInterval + backoffRef.current.  The model keeps that difference,    *)
(* sinceApi, in milliseconds and lets it saturate at ElapsedCap, the       *)
(* largest value the comparison can distinguish.  Date.now() is epoch      *)
(* time, so with lastApiRef.current = 0 the difference is saturated.  The  *)
(* clock advances from one instant at which the throttle can change its    *)
(* answer (baseInterval + a backoff value) to a later one.                 *)
(*                                                                         *)
(* Closures.  voiceEnabled, userActivatedAudio, apiMode and apiPending are *)
(* React state: a callback reads the values captured by the render that    *)
(* created it.  cb holds the values captured by the callbacks the sampling *)
(* loop invokes.  With binding = "latest" these are the callbacks of the   *)
(* latest committed render; with binding = "mount" they are those of the   *)
(* first render, which is what the core loop effect (line 255, deps [])    *)
(* keeps.  Spec, SpecRemote and SpecGate drive the scoring core with the   *)
(* callbacks of the latest render; SpecLoop is the loop as it is wired.    *)
(***************************************************************************)
EXTENDS Integers, Sequences, FiniteSets, TLC

VARIABLES
    score,                 \* useState(null): displayed score, <<>> or <<v>>
    voiceEnabled,          \* useState(true)
    userActivatedAudio,    \* useState(false)
    apiMode,               \* useState(false)
    apiPending,            \* useState(false)
    apiError,              \* useState('')
    stableRef,             \* useRef(null): value held by the gate
    consecutiveStableRef,  \* useRef(0)
    backoffRef,            \* useRef(0): ms
    sinceApi,              \* Date.now() - lastApiRef.current, saturating
    onLine,                \* navigator.onLine
    inflight,              \* calls of attemptApiAnalyze awaiting encode/fetch
    rafActive,             \* a requestAnimationFrame(step) request is pending
    pros,                  \* useState([]): entries held by their length
    cons,                  \* useState([])
    confidence,            \* useState(0): percent
    mounted,               \* the component has not been unmounted
    historyRef,            \* useHealthAnalyzer: raw scores, fractions of Unit
    brightnessHistoryRef,  \* useHealthAnalyzer: luminances
    varianceHistoryRef,    \* useHealthAnalyzer: luminance variances
    stream,                \* the frames the camera and the uploads deliver,
                           \* over and over
    analyzed,              \* calls of analyzeImageData that pushed a sample
    lighting,              \* useState(''): the lighting label displayed
    warnings,              \* useState([]): the advisories displayed
    req,                   \* analyze endpoint: the request handled last
    env,                   \* analyze endpoint: OPENAI_API_KEY was set for it
    res,                   \* analyze endpoint: the answer to it
    rawResult,             \* analyze endpoint: the value normalizeResult was
                           \* handed last
    normResult,            \* analyze endpoint: what it returned
    swCache,               \* service worker: the requests stored in the cache
                           \* CACHE_NAME, by their URL
    swRequest,             \* service worker: the fetch event handled last and
                           \* what the network does with its request
    swResponse,            \* service worker: what the handler did with it
    cb,                    \* state captured by the callbacks in use
    binding,               \* which render's callbacks the scheduler invokes
    \* history variables, read by the properties only
    op,                    \* the operation that produced this state: "tick",
                           \* "skip" (a tick without a frame), "success",
                           \* "failure", "toggleApi" or "other"
    spoken,                \* score passed to speakScore by that operation
    resp,                  \* body of the response that operation merged
    noFrame,               \* that operation was a tick that found the video
                           \* not ready or a frame of width or height 0
    analysis,              \* what analyzeImageData returned to that operation
    started,               \* that operation started a remote attempt
    opened,                \* that operation was a tick on which line 299 held
    preBackoff,            \* backoffRef before that operation
    sinceStart,            \* ms since the previous attempt started, saturating
    enabledSince,          \* API mode was switched on since that start
    heldSpoken             \* announcements made for the value now held

vars == <<score, voiceEnabled, userActivatedAudio, apiMode, apiPending,
          apiError, stableRef, consecutiveStableRef, backoffRef, sinceApi,
          onLine, inflight, rafActive, pros, cons, confidence, mounted, cb,
          binding, op, spoken, resp, started, opened, preBackoff, sinceStart,
          enabledSince, heldSpoken, historyRef, brightnessHistoryRef,
          varianceHistoryRef, stream, analyzed, noFrame, analysis,
          lighting, warnings,
          req, env, res, rawResult, normResult, swCache, swRequest,
          swResponse>>

\* the analyze endpoint, netlify/functions/analyze.js
serverVars == <<req, env, res, rawResult, normResult>>

\* the service worker, public/sw.js
workerVars == <<swCache, swRequest, swResponse>>

\* the state of useHealthAnalyzer, what the model records of its calls, and
\* the lighting display that is fed from its results alone
analyzerVars == <<historyRef, brightnessHistoryRef, varianceHistoryRef,
                  stream, analyzed, noFrame, analysis, lighting, warnings>>

---------------------------------------------------------------------------
\* Bounds of the model
Scale == 2            \* a number x is represented by x * Scale
MaxMapped == 3        \* sampling ticks produce mapped scores 1..MaxMapped
MaxCount == 3         \* consecutiveStableRef is explored up to MaxCount
MaxInflight == 2      \* overlapping calls are explored up to MaxInflight
Unit == 1000          \* a fraction x of [0,1] is represented by x * Unit
MaxFrames == 32       \* analyzeImageData is called up to MaxFrames times
MaxRun == 2           \* a stream changes its frame every 1..MaxRun frames

\* Program constants
baseInterval == 2500
BackoffFloor == 2000
BackoffCeiling == 60000
ScoreLo == 1
ScoreHi == 10
ListCap == 6          \* data.pros.slice(0, 6)
EntryCap == 60        \* normalizeResult: s.slice(0, 60)
MaxImageBytes == 400000   \* MAX_IMAGE_BYTES
ModelCap == 40        \* raw.model.slice(0, 40)
HistoryCap == 25      \* if (hist.length>25) hist.shift()
LightCap == 30        \* if (brightnessHistoryRef.current.length>30) ...shift()

ElapsedCap == baseInterval + BackoffCeiling

Min(a, b) == IF a < b THEN a ELSE b
Abs(x) == IF x < 0 THEN 0 - x ELSE x

Null == <<>>
Num(v) == <<v>>
Val(s) == s[1]

\* mapped scores of analyzeImageData (greenToScore yields integers)
MappedScores == {Scale * k : k \in 1..MaxMapped}
\* scores a remote response may carry: 2, 2.5 (for Scale = 2), 11
RemoteScores == {2 * Scale, 2 * Scale + 1, (ScoreHi + 1) * Scale}
\* data.score: a number, or absent (typeof data.score !== 'number')
ResponseScores == {Null} \cup {Num(v) : v \in RemoteScores}
\* err.message of a failed attempt; "" is an error without a message
FailureReasons == {"encode failed", "HTTP 500", "Failed to fetch", ""}

\* Math.round(x) for x = n / d, d > 0: the nearest integer, halves upwards
Round(n, d) == (2 * n + d) \div (2 * d)

\* A list of a response body: isArray is Array.isArray(list), items holds the
\* length of each entry.
NotArray == [isArray |-> FALSE, items |-> <<>>]
List(items) == [isArray |-> TRUE, items |-> items]
\* the lists a response may carry: none, an empty one, seven short entries,
\* one entry longer than EntryCap
ResponseLists == {NotArray, List(<<>>),
                  List([i \in 1..(ListCap + 1) |-> 10 + i]),
                  List(<<EntryCap + 1>>)}
\* data.confidence: absent, 65.5 (for Scale = 2), 250
ResponseConfidences == {Null, Num(65 * Scale + 1), Num(250 * Scale)}
\* the parsed body of an OK response
Data(s, p, c, f) == [score |-> s, pros |-> p, cons |-> c, confidence |-> f]
NoData == Data(Null, NotArray, NotArray, Null)
\* confidences of the local analysis, as fractions of Unit: below and above
\* the low-confidence threshold
LocalConfs == {(2 * Unit) \div 10, (6 * Unit) \div 10}
\* the values backoffRef.current can take, and the instants of the throttle
Backoffs == {0, BackoffCeiling} \cup
            {b \in {2 * BackoffFloor * k : k \in {1, 2, 4, 8}} : b <= BackoffCeiling}
Instants == {baseInterval + b : b \in Backoffs}

Closure(v, u, a, p) ==
    [voiceEnabled |-> v, userActivatedAudio |-> u, apiMode |-> a, apiPending |-> p]

\* Math.abs(a - prev) >= 1
AbsDiffGE1(a, prev) == Abs(a - prev) >= Scale

---------------------------------------------------------------------------
\* Mutants of MayStart: the pending guard dropped; the backoff left out of
\* the throttle.
MayStartNoPending(c, online, elapsed, backoff) ==
    /\ c.apiMode
    /\ online
    /\ ~(elapsed < baseInterval + backoff)

MayStartNoBackoff(c, online, elapsed, backoff) ==
    /\ c.apiMode
    /\ ~c.apiPending
    /\ online
    /\ ~(elapsed < baseInterval)

\* Mutant of MayStart: the connectivity guard dropped.
MayStartOffline(c, online, elapsed, backoff) ==
    /\ c.apiMode
    /\ ~c.apiPending
    /\ ~(elapsed < baseInterval + backoff)

\* attemptApiAnalyze, lines 148-151: the guards in front of an attempt.
\* c is the closure of the callback: apiMode and apiPending are captured.
MayStart(c, online, elapsed, backoff) ==
    /\ c.apiMode
    /\ ~c.apiPending
    /\ online
    /\ ~(elapsed < baseInterval + backoff)

\* Mutant of BackoffOnSuccess: the reset forgotten.
BackoffOnSuccessKept(b) == b

\* attemptApiAnalyze, line 173: backoffRef.current = 0
BackoffOnSuccess(b) == 0

\* attemptApiAnalyze, lines 175-176:
\*   const prev = backoffRef.current || 2000;
\*   backoffRef.current = Math.min(prev * 2, 60000);
BackoffOnFailure(b) ==
    LET prev == IF b = 0 THEN BackoffFloor ELSE b
    IN  Min(prev * 2, BackoffCeiling)

\* Mutant of MergeScore: the response's score always taken.
MergeScoreAlways(prev, s) == IF s = Null THEN prev ELSE s

\* attemptApiAnalyze, lines 165-167:
\*   if (typeof data.score === 'number')
\*     setScore(prev => (prev == null || Math.abs(data.score - prev) >= 1 ? data.score : prev))
MergeScore(prev, s) ==
    IF s = Null THEN prev
    ELSE IF prev = Null \/ AbsDiffGE1(Val(s), Val(prev)) THEN s ELSE prev

\* attemptApiAnalyze, lines 168-169: data.pros.slice(0, 6)
MergeList(prev, l) ==
    IF l.isArray THEN SubSeq(l.items, 1, Min(Len(l.items), ListCap)) ELSE prev

\* attemptApiAnalyze, line 170:
\*   Math.round(Math.min(100, Math.max(0, data.confidence)))
MergeConfidence(prev, f) ==
    IF f = Null THEN prev
    ELSE Round(Min(100 * Scale, IF Val(f) < 0 THEN 0 ELSE Val(f)), Scale)

\* Mutant of ErrorMessage: the message dropped.
ErrorMessageDropped(message) == ""

\* attemptApiAnalyze, line 177: err.message || 'API error'
ErrorMessage(message) == IF message = "" THEN "API error" ELSE message

\* describeFromScore, lines 328-350; M is the score times Scale, conf a
\* fraction of Unit
DescribePros(M) ==
    IF M >= 8 * Scale THEN <<23, 22>>
    ELSE IF M >= 6 * Scale THEN <<33, 31>>
    ELSE IF M >= 4 * Scale THEN <<25>>
    ELSE <<17>>

DescribeCons(M, conf) ==
    LET base == IF M >= 8 * Scale THEN <<34>>
                ELSE IF M >= 6 * Scale THEN <<26>>
                ELSE IF M >= 4 * Scale THEN <<32, 24>>
                ELSE <<16, 27>>
    IN  IF conf * 100 < 50 * Unit THEN Append(base, 53) ELSE base

\* Mutant of Percent: the factor 100 dropped.
PercentOfOne(conf) == Round(conf, Unit)

\* captureAndAnalyze, line 322: Math.round(conf * 100)
Percent(conf) == Round(conf * 100, Unit)

\* captureAndAnalyze, line 299: prev === null || Math.abs(mappedScore - prev) >= 1
GateOpen(prev, M) == prev = Null \/ AbsDiffGE1(M, Val(prev))

\* Mutant of GateCount: the counter never restarted.
GateCountAlways(held, count, M) == count + 1

\* captureAndAnalyze, lines 301-306: the consecutive-stable counter
GateCount(held, count, M) == IF held = Num(M) THEN count + 1 ELSE 1

\* Mutant of GateSpeaks: the two-tick confirmation dropped.
GateSpeaksUnconfirmed(c, count, M, prev) ==
    /\ c.voiceEnabled
    /\ c.userActivatedAudio
    /\ Num(M) # prev

\* captureAndAnalyze, line 307: the condition of speakScore(mappedScore)
GateSpeaks(c, count, M, prev) ==
    /\ c.voiceEnabled
    /\ c.userActivatedAudio
    /\ count >= 2
    /\ Num(M) # prev

\* Mutant of ToggleApiBackoff: the reset on every click, also when switching off.
ToggleApiBackoffAlways(mode, b) == 0

\* API toggle button, line 440:
\*   if (!apiMode) { backoffRef.current = 0; lastApiRef.current = 0; }
ToggleApiBackoff(mode, b) == IF ~mode THEN 0 ELSE b
ToggleApiElapsed(mode, e) == IF ~mode THEN ElapsedCap ELSE e

\* The render that follows the state updates of an operation: the callbacks
\* in use capture the new state when the scheduler is bound to the latest render.
Commit ==
    cb' = IF binding = "latest"
          THEN Closure(voiceEnabled', userActivatedAudio', apiMode', apiPending')
          ELSE cb

---------------------------------------------------------------------------
\* useHealthAnalyzer, lines 10-93.  Fractions are integers in units of
\* 1 / Unit and quotients are truncated.  A frame is what lines 40-51 extract
\* from the pixels: the channel averages r, g, b and the variance v of the
\* sampled luminance; ready is videoRef.current.readyState >= 2, w and h are
\* the dimensions of the frame.

Frame(ready, w, h, r, g, b, v) ==
    [ready |-> ready, w |-> w, h |-> h, r |-> r, g |-> g, b |-> b, v |-> v]

Pixels(r, g, b, v) == Frame(TRUE, 1, 1, r, g, b, v)

\* frames with an image: leafy green in good light, pure red, dark grey
\* without texture, white without texture, mid grey without texture
Frames ==
    {Pixels((3 * Unit) \div 10, (6 * Unit) \div 10, (2 * Unit) \div 10, Unit \div 100),
     Pixels(Unit, 0, 0, Unit \div 100),
     Pixels(Unit \div 20, Unit \div 20, Unit \div 20, 0),
     Pixels(Unit, Unit, Unit, 0),
     Pixels(Unit \div 2, Unit \div 2, Unit \div 2, 0)}

\* ticks without an image: the video not ready, a width or a height of 0
NoFrames ==
    {Frame(FALSE, 1, 1, 0, 0, 0, 0), Frame(TRUE, 0, 1, 0, 0, 0, 0),
     Frame(TRUE, 1, 0, 0, 0, 0, 0)}

\* n frames f in a row
Run(f, n) == [i \in 1..n |-> f]

\* A stream is the sequence of frames that the camera and the uploads
\* deliver over and over.  The streams of the analyzer: run frames a, run
\* frames b, run frames a, ...
Streams ==
    {Run(st[1], st[3]) \o Run(st[2], st[3]) :
        st \in {x \in Frames \X Frames \X (1..MaxRun) :
                   x[3] > 1 => x[1] # x[2]}}

NoStream == <<>>

\* Frames of the examples.  Leafy: r = 0.10, g = 0.60, b = 0.15, with texture
\* and without.  DarkGrey and DarkGreen: two scenes of luminance 0.05 with
\* texture.  Red, and four greens of nearly the same raw score, in good light.
Leafy == Pixels(Unit \div 10, (6 * Unit) \div 10, (15 * Unit) \div 100, Unit \div 100)
LeafyFlat == Pixels(Unit \div 10, (6 * Unit) \div 10, (15 * Unit) \div 100, 0)
DarkGrey == Pixels(Unit \div 20, Unit \div 20, Unit \div 20, Unit \div 100)
DarkGreen == Pixels(Unit \div 50, (62 * Unit) \div 1000, Unit \div 50, Unit \div 100)
Red == Pixels(Unit, 0, 0, Unit \div 100)
Green(k) ==
    Pixels((3 * Unit) \div 10, ((60 + 2 * k) * Unit) \div 100, (3 * Unit) \div 10,
           Unit \div 100)

\* the streams of the examples: the leafy scene, with and without texture,
\* and after another scene; the dark scenes; an outlier among near-equal
\* scores
ExampleStreams ==
    {<<Leafy>>, <<LeafyFlat>>, Run(Red, HistoryCap - 10) \o Run(Leafy, 10),
     <<DarkGrey>>, <<DarkGrey, DarkGreen>>,
     <<Red, Green(0), Green(1), Green(2), Green(3)>>}

\* no call of analyzeImageData: beside what the function returns, the record
\* of a call keeps its avgBrightness, avgVariance, rawScore (line 65) and
\* smoothed
NoAnalysis ==
    [mappedScore |-> 0, conf |-> 0, smoothed |-> 0, lightingState |-> "none",
     warnings |-> <<>>, avgBrightness |-> 0, avgVariance |-> 0, rawScore |-> 0]

\* Mutant of FrameAvailable: the height not looked at.
FrameAvailableAnyHeight(f) == f.ready /\ f.w # 0

\* step, line 242, and captureAndAnalyze, lines 278-281: a frame is there
FrameAvailable(f) == f.ready /\ f.w # 0 /\ f.h # 0

Max(a, b) == IF a > b THEN a ELSE b

RECURSIVE Sum(_)
Sum(arr) == IF arr = <<>> THEN 0 ELSE Head(arr) + Sum(Tail(arr))

\* [...arr].sort((a,b)=>a-b)
Sorted(arr) == SortSeq(arr, LAMBDA x, y : x < y)

\* Math.sqrt, truncated: the largest k in lo..hi with k * k <= n
RECURSIVE SqrtIn(_, _, _)
SqrtIn(n, lo, hi) ==
    IF lo = hi THEN lo
    ELSE LET mid == (lo + hi + 1) \div 2
         IN  IF mid * mid <= n THEN SqrtIn(n, mid, hi) ELSE SqrtIn(n, lo, mid - 1)

Sqrt(n) == SqrtIn(n, 0, 2 * Unit)

\* Mutant of greenToScore: the offset of 1 dropped.
greenToScoreNoOffset(g) == Round(Min(Unit, Max(0, g)) * 9, Unit)

\* greenToScore, lines 10-13
greenToScore(g) == Round(Min(Unit, Max(0, g)) * 9, Unit) + 1

\* median, lines 16-20
median(arr) ==
    IF arr = <<>> THEN 0 ELSE Sorted(arr)[(Len(arr) \div 2) + 1]

\* trimmedMean, lines 23-29; trim is given in percent
trimmedMean(arr, trim) ==
    IF arr = <<>> THEN 0
    ELSE LET srt == Sorted(arr)
             k == (Len(srt) * trim) \div 100
             trimmed == SubSeq(srt, k + 1, Len(srt) - k)
         IN  Sum(trimmed) \div Len(trimmed)

\* Mutant of Push: a full window drops the entry just pushed.
PushDropNewest(window, x, cap) ==
    LET pushed == Append(window, x)
    IN  IF Len(pushed) > cap THEN SubSeq(pushed, 1, cap) ELSE pushed

\* lines 53-56 and 67: window.push(x); if (window.length > cap) window.shift()
Push(window, x, cap) ==
    LET pushed == Append(window, x)
    IN  IF Len(pushed) > cap THEN Tail(pushed) ELSE pushed

\* line 45
Luminance(f) == (2126 * f.r + 7152 * f.g + 722 * f.b) \div 10000

\* Mutant of LightingState: the texture looked at first.
LightingStateTextureFirst(avgBrightness, avgVariance) ==
    IF avgVariance * 1000 < 2 * Unit THEN "Low Texture"
    ELSE IF avgBrightness * 100 < 12 * Unit THEN "Too Dark"
    ELSE IF avgBrightness * 100 > 85 * Unit THEN "Too Bright"
    ELSE "OK"

\* lines 60-61
LightingState(avgBrightness, avgVariance) ==
    IF avgBrightness * 100 < 12 * Unit THEN "Too Dark"
    ELSE IF avgBrightness * 100 > 85 * Unit THEN "Too Bright"
    ELSE IF avgVariance * 1000 < 2 * Unit THEN "Low Texture"
    ELSE "OK"

\* line 87
Warnings(lightingState) ==
    (IF lightingState = "Too Dark" THEN <<"Increase lighting">> ELSE <<>>)
    \o (IF lightingState = "Too Bright" THEN <<"Reduce glare">> ELSE <<>>)
    \o (IF lightingState = "Low Texture"
        THEN <<"Move closer / adjust focus">> ELSE <<>>)

\* line 63: gAvg/(rAvg+gAvg+bAvg+1e-6)
GreenDominance(f) ==
    IF f.r + f.g + f.b = 0 THEN 0 ELSE (f.g * Unit) \div (f.r + f.g + f.b)

\* line 64
BalancePenalty(f) == (Abs(f.r - f.b) * 15) \div 100

\* Mutant of RawScore: the floor of 0 dropped.
RawScoreNoFloor(f) == GreenDominance(f) - BalancePenalty(f)

\* line 65
RawScore(f) == Max(0, GreenDominance(f) - BalancePenalty(f))

\* lines 71-74: the median of the entries within 1.5 interquartile ranges of
\* the median.  An interquartile range of 0 is replaced by 1e-6, which is
\* below the resolution 1 / Unit.
\* Mutant of Filtered: no entry dropped.
FilteredNone(hist) == hist

\* Mutant of Filtered: the bounds of the band excluded.
FilteredStrict(hist) ==
    LET sorted == Sorted(hist)
        n == Len(sorted)
        med == sorted[(n \div 2) + 1]
        iqr == sorted[((n * 3) \div 4) + 1] - sorted[(n \div 4) + 1]
    IN  SelectSeq(hist, LAMBDA x : 2 * x > 2 * med - 3 * iqr
                                   /\ 2 * x < 2 * med + 3 * iqr)

Filtered(hist) ==
    LET sorted == Sorted(hist)
        n == Len(sorted)
        med == sorted[(n \div 2) + 1]
        iqr == sorted[((n * 3) \div 4) + 1] - sorted[(n \div 4) + 1]
    IN  SelectSeq(hist, LAMBDA x : 2 * x >= 2 * med - 3 * iqr
                                   /\ 2 * x <= 2 * med + 3 * iqr)

Smoothed(hist) ==
    LET filtered == Filtered(hist)
    IN  median(IF filtered # <<>> THEN filtered ELSE hist)

\* Mutant of LightingPenalty: the confidence kept under degraded lighting.
LightingPenaltyNone(conf, lightingState) == conf

\* line 84: if (lightingState!=='OK') conf*=0.7
LightingPenalty(conf, lightingState) ==
    IF lightingState # "OK" THEN (conf * 7) \div 10 ELSE conf

\* Mutant of ConfClamp: the floor and the cap dropped.
ConfClampNone(conf) == conf

\* line 85: conf = Math.max(0.2, Math.min(1, conf))
ConfClamp(conf) == Max((2 * Unit) \div 10, Min(Unit, conf))

\* lines 77-85
Confidence(f, hist, lightingState, avgVariance) ==
    LET sorted == Sorted(hist)
        dominanceComponent ==
            Min(Unit, (Abs(3 * GreenDominance(f) - Unit) * 22) \div 30)
        chroma == Sqrt(((f.r - f.g) * (f.r - f.g) + (f.g - f.b) * (f.g - f.b)
                        + (f.r - f.b) * (f.r - f.b)) \div 3)
        chromaComponent == Min(Unit, (chroma * 18) \div 10)
        stability == Unit - (sorted[Len(sorted)] - sorted[1])
        stabilityComponent == Max(0, Min(Unit, stability))
        c0 == (dominanceComponent * 45 + chromaComponent * 25
               + stabilityComponent * 30) \div 100
        c1 == IF Len(hist) >= 10 THEN Min(Unit, c0 + Unit \div 10) ELSE c0
        c2 == LightingPenalty(c1, lightingState)
        c3 == IF avgVariance * 1000 < 2 * Unit THEN (c2 * 75) \div 100 ELSE c2
    IN  ConfClamp(c3)

\* lines 68-69: under degraded lighting the entry just pushed is replaced by
\* median(hist) * 0.7 + rawScore * 0.3, hist being the window after the push
Blend(hist1, rawScore, lightingState) ==
    IF lightingState # "OK"
    THEN [hist1 EXCEPT ![Len(hist1)] =
             (median(hist1) * 7 + rawScore * 3) \div 10]
    ELSE hist1

\* analyzeImageData, lines 37-90, on a frame with non-zero width and height:
\* the windows after the call and the result
analyzeImageData(hist, bright, vari, f) ==
    LET bright1 == Push(bright, Luminance(f), LightCap)
        vari1 == Push(vari, f.v, LightCap)
        avgBrightness == trimmedMean(bright1, 15)
        avgVariance == trimmedMean(vari1, 15)
        lightingState == LightingState(avgBrightness, avgVariance)
        rawScore == RawScore(f)
        hist1 == Push(hist, rawScore, HistoryCap)
        hist2 == Blend(hist1, rawScore, lightingState)
        smoothed == Smoothed(hist2)
    IN  [historyRef |-> hist2,
         brightnessHistoryRef |-> bright1,
         varianceHistoryRef |-> vari1,
         result |-> [mappedScore |-> greenToScore(smoothed),
                     conf |-> Confidence(f, hist2, lightingState, avgVariance),
                     smoothed |-> smoothed,
                     lightingState |-> lightingState,
                     warnings |-> Warnings(lightingState),
                     avgBrightness |-> avgBrightness,
                     avgVariance |-> avgVariance,
                     rawScore |-> rawScore]]

---------------------------------------------------------------------------
\* netlify/functions/analyze.js.  A request: method is req.method ("" when it
\* is undefined), parsed is what JSON.parse(data) gives ("object", "null", or
\* "invalid" when it throws), bytes is the size of the image the sender
\* encoded, image is the length of image_base64 (0: absent or empty),
\* use_model and barcode tell whether the fields are truthy.

\* encodeFrame, lines 136-143: the base64 text of a data URL, which encodes 3
\* bytes in 4 characters and pads the last group
Base64Length(n) == 4 * ((n + 2) \div 3)

Request(method, parsed, bytes, use_model, barcode) ==
    [method |-> method, parsed |-> parsed, bytes |-> bytes,
     image |-> Base64Length(bytes), use_model |-> use_model,
     barcode |-> barcode]

\* image sizes: none, small, and the sizes around the limit
ImageBytes ==
    {0, 750, MaxImageBytes - 1, MaxImageBytes, MaxImageBytes + 1}

Requests ==
    {Request(m, p, n, u, b) :
        m \in {"", "GET", "POST", "PUT"}, p \in {"object", "null", "invalid"},
        n \in ImageBytes, u \in BOOLEAN, b \in BOOLEAN}

NoRequest == Request("", "invalid", 0, FALSE, FALSE)

\* The value of a field that may hold a string: the text when it does.
Str(text) == [isString |-> TRUE, text |-> text]
NotString == [isString |-> FALSE, text |-> ""]

\* a model identifier of 41 characters and its first 40
LongModel == "gpt-4.1-mini-2025-04-14-vision-preview-xl"
LongModelCut == "gpt-4.1-mini-2025-04-14-vision-preview-x"

\* the length of the strings the model handles
StrLen(text) ==
    CASE text = "" -> 0
      [] text = "normalized" -> 10
      [] text = "gpt-4.1-mini" -> 12
      [] text = "fallback-mock" -> 13
      [] text = "placeholder-mock" -> 16
      [] text = LongModelCut -> 40
      [] text = LongModel -> 41

\* normalizeResult, line 29: raw.model.slice(0, 40)
SliceModel(text) == IF StrLen(text) > ModelCap THEN LongModelCut ELSE text

\* A number that is NaN is the sequence <<0, 0>>.
NaN == <<0, 0>>

\* What normalizeResult is handed.  object: the value is a non-null object.
\* score and confidence are Null when the field is not a number.  An entry of
\* a list is held by its length when it is a string and by -1 when it is not.
Raw(sc, conf, p, c, model) ==
    [object |-> TRUE, score |-> sc, confidence |-> conf, pros |-> p,
     cons |-> c, model |-> model]

\* null, undefined, a number, a string
NoRaw ==
    [object |-> FALSE, score |-> Null, confidence |-> Null, pros |-> NotArray,
     cons |-> NotArray, model |-> NotString]

\* normalizeResult, line 23
clamp(v, lo, hi) == Min(hi, Max(lo, v))

\* normalizeResult, lines 24-25: clamp(Math.round(x), lo, hi) of a number x.
\* Math.round, Math.max and Math.min of NaN are NaN.
ClampRound(x, lo, hi) ==
    IF x = NaN THEN NaN ELSE Num(Scale * clamp(Round(Val(x), Scale), lo, hi))

\* Mutant of limitList: slice(1, 7) for slice(0, 6).
limitListSkipFirst(arr) ==
    IF arr.isArray
    THEN LET strings == SelectSeq(arr.items, LAMBDA x : x >= 0)
             first == SubSeq(strings, 2, Min(Len(strings), ListCap + 1))
         IN  [i \in 1..Len(first) |-> Min(first[i], EntryCap)]
    ELSE <<>>

\* normalizeResult, line 26
limitList(arr) ==
    IF arr.isArray
    THEN LET strings == SelectSeq(arr.items, LAMBDA x : x >= 0)
             first == SubSeq(strings, 1, Min(Len(strings), ListCap))
         IN  [i \in 1..Len(first) |-> Min(first[i], EntryCap)]
    ELSE <<>>

\* normalizeResult, lines 20-31
normalizeResult(raw) ==
    IF ~raw.object
    THEN [score |-> Num(5 * Scale), pros |-> <<>>, cons |-> <<>>,
          confidence |-> Num(50 * Scale), model |-> Str("normalized")]
    ELSE [score |-> IF raw.score = Null THEN Num(5 * Scale)
                    ELSE ClampRound(raw.score, ScoreLo, ScoreHi),
          pros |-> limitList(raw.pros),
          cons |-> limitList(raw.cons),
          confidence |-> IF raw.confidence = Null THEN Num(50 * Scale)
                         ELSE ClampRound(raw.confidence, 0, 100),
          model |-> IF raw.model.isString
                    THEN Str(SliceModel(raw.model.text))
                    ELSE Str("normalized")]

\* A result of normalizeResult as the value handed to it: an object whose
\* score and confidence are numbers, whose pros and cons are arrays and whose
\* model is a string.
AsRaw(result) ==
    Raw(result.score, result.confidence, List(result.pros), List(result.cons),
        result.model)

\* handler, lines 114-121: the mock result
Mock(modelTried) ==
    Raw(Num(7 * Scale), Num(65 * Scale), List(<<22, 20>>), List(<<32>>),
        Str(IF modelTried THEN "fallback-mock" ELSE "placeholder-mock"))

NoResult ==
    [score |-> Null, pros |-> <<>>, cons |-> <<>>, confidence |-> Null,
     model |-> NotString]

Answer(status, error, result, tried) ==
    [statusCode |-> status, error |-> error, result |-> result, modelTried |-> tried]

NoAnswer == Answer(0, "", NoResult, FALSE)

\* Mutant of MethodOf: a request without a method taken for a POST.
MethodOfDefaultPost(rq) == IF rq.method = "" THEN "POST" ELSE rq.method

\* handler, line 53: req.method || 'GET'
MethodOf(rq) == IF rq.method = "" THEN "GET" ELSE rq.method

\* handler, lines 62-63: readBody resolves {} when JSON.parse throws; the
\* fields of the body
BodyImage(rq) == IF rq.parsed = "object" THEN rq.image ELSE 0
BodyUseModel(rq) == rq.parsed = "object" /\ rq.use_model

\* Mutant of TooLarge: the length of the text compared with the limit.
TooLargeUndecoded(len) == len > MaxImageBytes

\* handler, lines 68-69: image_base64.length * 0.75 > MAX_IMAGE_BYTES
TooLarge(len) == len * 3 > MaxImageBytes * 4

\* Mutant of ModelTried: the image not looked at.
ModelTriedUseModelOnly(rq) == BodyUseModel(rq)

\* handler, line 79: use_model && image_base64
ModelTried(rq) == BodyUseModel(rq) /\ BodyImage(rq) # 0

\* handler, lines 44-136: the answer to request rq when OPENAI_API_KEY is set
\* (key) or not.  res.statusCode is 200 unless the handler sets it.  The call
\* of the model, lines 82-105, is commented out: final is null at line 112.
Handle(rq, key) ==
    IF ~key THEN Answer(500, "Missing OPENAI_API_KEY env var", NoResult, FALSE)
    ELSE IF MethodOf(rq) # "POST" THEN Answer(405, "Use POST", NoResult, FALSE)
    ELSE IF rq.parsed = "null"
         THEN Answer(500, "Inference failed", NoResult, FALSE)
    ELSE IF BodyImage(rq) # 0 /\ TooLarge(BodyImage(rq))
         THEN Answer(413, "Image too large", NoResult, FALSE)
    ELSE Answer(200, "", normalizeResult(Mock(ModelTried(rq))), ModelTried(rq))

---------------------------------------------------------------------------
\* public/sw.js.  A URL is held by its origin and its path.  The origin is
\* "same" (self.location.origin), "prefixed" (another origin whose text begins
\* with the text of self.location.origin, such as the same host with a port
\* appended) or "other".

Url(origin, path) == [origin |-> origin, path |-> path]

OfflinePage == Url("same", "/offline.html")

\* lines 2-7
APP_SHELL ==
    {Url("same", "/"), Url("same", "/index.html"),
     Url("same", "/manifest.webmanifest"), OfflinePage}

\* the URLs requested: two of the app shell, a same-origin asset, and a
\* resource of each other kind of origin
Urls ==
    {Url("same", "/"), OfflinePage, Url("same", "/assets/app.js"),
     Url("prefixed", "/data.json"), Url("other", "/lib.js")}

\* A fetch event: the request's method, mode and URL, and what the network
\* does with the request: "ok" (a response with resp.ok), "notOk" (any other
\* response) or "fails" (fetch rejects).
FetchEvent(method, mode, url, network) ==
    [method |-> method, mode |-> mode, url |-> url, network |-> network]

FetchEvents ==
    {FetchEvent(m, md, u, n) :
        m \in {"GET", "POST", "HEAD"}, md \in {"navigate", "cors"},
        u \in Urls, n \in {"ok", "notOk", "fails"}}

NoFetch == FetchEvent("", "", OfflinePage, "")

\* What the handler did: responded tells whether it called e.respondWith,
\* fetched whether it called fetch(request), response what respondWith
\* settled with ("network", "cached", "offline", "error" for
\* Response.error(), "undefined", or "none"), stored whether it put the
\* response into the cache.
Handled(responded, fetched, response, stored) ==
    [responded |-> responded, fetched |-> fetched, response |-> response,
     stored |-> stored]

NoResponse == Handled(FALSE, FALSE, "none", FALSE)

\* line 40: request.url.startsWith(self.location.origin)
StartsWithOrigin(url) == url.origin \in {"same", "prefixed"}

\* Mutant of OfflineFallback: the offline page not looked up.
OfflineFallbackNone(cache) == "error"

\* lines 28-30: cache.match('/offline.html') || Response.error()
OfflineFallback(cache) == IF OfflinePage \in cache THEN "offline" ELSE "error"

\* the fetch listener, lines 21-47, on event e with the cache holding cache
OnFetch(e, cache) ==
    IF e.method # "GET" THEN NoResponse
    ELSE IF e.mode = "navigate"
         THEN IF e.network = "fails"
              THEN Handled(TRUE, TRUE, OfflineFallback(cache), FALSE)
              ELSE Handled(TRUE, TRUE, "network", FALSE)
    ELSE IF e.url \in cache THEN Handled(TRUE, FALSE, "cached", FALSE)
    ELSE IF e.network = "fails" THEN Handled(TRUE, TRUE, "undefined", FALSE)
    ELSE Handled(TRUE, TRUE, "network",
                 e.network = "ok" /\ StartsWithOrigin(e.url))

---------------------------------------------------------------------------
Mounted ==
    /\ score = Null
    /\ voiceEnabled = TRUE
    /\ userActivatedAudio = FALSE
    /\ apiMode = FALSE
    /\ apiPending = FALSE
    /\ apiError = ""
    /\ stableRef = Null
    /\ consecutiveStableRef = 0
    /\ backoffRef = 0
    /\ sinceApi = ElapsedCap
    /\ onLine = TRUE
    /\ inflight = 0
    /\ rafActive = TRUE
    /\ pros = <<>>
    /\ cons = <<>>
    /\ confidence = 0
    /\ mounted = TRUE
    /\ cb = Closure(TRUE, FALSE, FALSE, FALSE)
    /\ op = "other"
    /\ spoken = Null
    /\ resp = NoData
    /\ historyRef = <<>>
    /\ brightnessHistoryRef = <<>>
    /\ varianceHistoryRef = <<>>
    /\ analyzed = 0
    /\ lighting = ""
    /\ warnings = <<>>
    /\ noFrame = FALSE
    /\ req = NoRequest
    /\ env = FALSE
    /\ res = NoAnswer
    /\ rawResult = NoRaw
    /\ normResult = NoResult
    /\ swCache = APP_SHELL
    /\ swRequest = NoFetch
    /\ swResponse = NoResponse
    /\ analysis = NoAnalysis
    /\ started = FALSE
    /\ opened = FALSE
    /\ preBackoff = 0
    /\ sinceStart = ElapsedCap
    /\ enabledSince = FALSE
    /\ heldSpoken = 0

Init == Mounted /\ binding = "latest" /\ stream = NoStream

\* The core loop effect, lines 236-255: step calls the captureAndAnalyze of
\* the render that ran the effect, the first one.
InitLoop == Mounted /\ binding = "mount" /\ stream = NoStream

\* The loop as wired in front of a camera that delivers one of the streams.
InitAnalyzer == Mounted /\ binding = "mount" /\ stream \in Streams

\* The same in front of the scenes of the examples.
InitExamples == Mounted /\ binding = "mount" /\ stream \in ExampleStreams

\* captureAndAnalyze, lines 275-326, on a tick whose frame yields an analysis
\* with mappedScore M; it ends with attemptApiAnalyze(canvas, barcode), whose
\* synchronous part (lines 148-154) runs up to the first await.  conf is the
\* confidence of the analysis.
captureAndAnalyze(M, conf) ==
    LET open   == GateOpen(score, M)
        count  == IF open THEN GateCount(stableRef, consecutiveStableRef, M)
                  ELSE consecutiveStableRef
        speaks == open /\ GateSpeaks(cb, count, M, score)
        starts == MayStart(cb, onLine, sinceApi, backoffRef)
    IN  /\ rafActive
        /\ count <= MaxCount
        /\ starts => inflight < MaxInflight
        /\ score' = IF open THEN Num(M) ELSE score
        /\ stableRef' = IF open THEN Num(M) ELSE stableRef
        /\ consecutiveStableRef' = count
        /\ sinceApi' = IF starts THEN 0 ELSE sinceApi
        /\ apiError' = IF starts THEN "" ELSE apiError
        /\ apiPending' = IF starts THEN TRUE ELSE apiPending
        /\ inflight' = IF starts THEN inflight + 1 ELSE inflight
        /\ pros' = DescribePros(M)
        /\ cons' = DescribeCons(M, conf)
        /\ confidence' = Percent(conf)
        /\ UNCHANGED <<voiceEnabled, userActivatedAudio, apiMode, backoffRef,
                       onLine, rafActive, mounted, binding>>
        /\ Commit
        /\ op' = "tick"
        /\ resp' = NoData
        /\ spoken' = IF speaks THEN Num(M) ELSE Null
        /\ started' = starts
        /\ opened' = open
        /\ preBackoff' = backoffRef
        /\ sinceStart' = IF starts THEN 0 ELSE sinceStart
        /\ enabledSince' = IF starts THEN FALSE ELSE enabledSince
        /\ heldSpoken' = IF open /\ stableRef # Num(M) THEN 0
                         ELSE IF speaks THEN heldSpoken + 1 ELSE heldSpoken

\* Mutant of PendingAfter: the flag cleared at the end of the try block.
PendingAfterTryOnly(ok) == ~ok

\* attemptApiAnalyze, lines 178-180: finally { setApiPending(false) }, ok
\* telling whether the try block ran to its end
PendingAfter(ok) == FALSE

\* attemptApiAnalyze, lines 163-173 and 178-180: a pending call completes
\* with an OK response whose body parses to data.  The code asks for no
\* sign of life of the component before it calls the setters.
apiSuccess(data) ==
    /\ inflight > 0
    /\ score' = MergeScore(score, data.score)
    /\ pros' = MergeList(pros, data.pros)
    /\ cons' = MergeList(cons, data.cons)
    /\ confidence' = MergeConfidence(confidence, data.confidence)
    /\ backoffRef' = BackoffOnSuccess(backoffRef)
    /\ apiPending' = PendingAfter(TRUE)
    /\ inflight' = inflight - 1
    /\ UNCHANGED <<voiceEnabled, userActivatedAudio, apiMode, apiError,
                   stableRef, consecutiveStableRef, sinceApi, onLine, rafActive,
                   mounted, binding>>
    /\ Commit
    /\ op' = "success"
    /\ resp' = data
    /\ spoken' = Null
    /\ started' = FALSE
    /\ opened' = FALSE
    /\ preBackoff' = backoffRef
    /\ UNCHANGED <<sinceStart, enabledSince, heldSpoken>>
    /\ UNCHANGED analyzerVars
    /\ UNCHANGED serverVars
    /\ UNCHANGED workerVars

\* attemptApiAnalyze, lines 157, 163 and 174-180: a pending call fails
\* (encode yields nothing, fetch rejects, status not OK, body unreadable).
apiFailure(reason) ==
    /\ inflight > 0
    /\ backoffRef' = BackoffOnFailure(backoffRef)
    /\ apiError' = ErrorMessage(reason)
    /\ apiPending' = PendingAfter(FALSE)
    /\ inflight' = inflight - 1
    /\ UNCHANGED <<score, voiceEnabled, userActivatedAudio, apiMode,
                   stableRef, consecutiveStableRef, sinceApi, onLine, rafActive,
                   pros, cons, confidence, mounted, binding>>
    /\ Commit
    /\ op' = "failure"
    /\ resp' = NoData
    /\ spoken' = Null
    /\ started' = FALSE
    /\ opened' = FALSE
    /\ preBackoff' = backoffRef
    /\ UNCHANGED <<sinceStart, enabledSince, heldSpoken>>
    /\ UNCHANGED analyzerVars
    /\ UNCHANGED serverVars
    /\ UNCHANGED workerVars

\* toggleVoice, lines 376-379
toggleVoice ==
    /\ mounted
    /\ voiceEnabled' = ~voiceEnabled
    /\ userActivatedAudio' = TRUE
    /\ UNCHANGED <<score, apiMode, apiPending, apiError, stableRef,
                   consecutiveStableRef, backoffRef, sinceApi, onLine,
                   inflight, rafActive, pros, cons, confidence, mounted, binding>>
    /\ Commit
    /\ op' = "other"
    /\ resp' = NoData
    /\ spoken' = Null
    /\ started' = FALSE
    /\ opened' = FALSE
    /\ preBackoff' = backoffRef
    /\ UNCHANGED <<sinceStart, enabledSince, heldSpoken>>
    /\ UNCHANGED analyzerVars
    /\ UNCHANGED serverVars
    /\ UNCHANGED workerVars

\* API toggle button, lines 439-444
toggleApi ==
    /\ mounted
    /\ apiMode' = ~apiMode
    /\ backoffRef' = ToggleApiBackoff(apiMode, backoffRef)
    /\ sinceApi' = ToggleApiElapsed(apiMode, sinceApi)
    /\ UNCHANGED <<score, voiceEnabled, userActivatedAudio, apiPending,
                   apiError, stableRef, consecutiveStableRef, onLine,
                   inflight, rafActive, pros, cons, confidence, mounted, binding>>
    /\ Commit
    /\ op' = "toggleApi"
    /\ resp' = NoData
    /\ spoken' = Null
    /\ started' = FALSE
    /\ opened' = FALSE
    /\ preBackoff' = backoffRef
    /\ enabledSince' = (enabledSince \/ ~apiMode)
    /\ UNCHANGED <<sinceStart, heldSpoken>>
    /\ UNCHANGED analyzerVars
    /\ UNCHANGED serverVars
    /\ UNCHANGED workerVars

\* handleImageUpload, lines 381-412: img.onload with an analysis whose
\* mappedScore is M and whose confidence is conf; setScore(mappedScore)
\* writes the score directly.
handleImageUpload(M, conf) ==
    /\ mounted
    /\ score' = Num(M)
    /\ pros' = DescribePros(M)
    /\ cons' = DescribeCons(M, conf)
    /\ confidence' = Percent(conf)
    /\ UNCHANGED <<voiceEnabled, userActivatedAudio, apiMode, apiPending,
                   apiError, stableRef, consecutiveStableRef, backoffRef,
                   sinceApi, onLine, inflight, rafActive, mounted, binding>>
    /\ Commit
    /\ op' = "other"
    /\ resp' = NoData
    /\ spoken' = Null
    /\ started' = FALSE
    /\ opened' = FALSE
    /\ preBackoff' = backoffRef
    /\ UNCHANGED <<sinceStart, enabledSince, heldSpoken>>

\* A tick whose analysis yields mappedScore M and confidence conf, and an
\* upload whose analysis does: the analysis is replaced by its result and the
\* windows of the analyzer are not followed.
sampled(M, conf) ==
    /\ captureAndAnalyze(M, conf)
    /\ UNCHANGED analyzerVars
    /\ UNCHANGED serverVars
    /\ UNCHANGED workerVars

uploaded(M, conf) ==
    /\ handleImageUpload(M, conf)
    /\ UNCHANGED analyzerVars
    /\ UNCHANGED serverVars
    /\ UNCHANGED workerVars

\* the frame the stream delivers next
NextFrame ==
    stream[(analyzed % Len(stream)) + 1]

\* the frame analysed last
LastFrame ==
    stream[((analyzed - 1) % Len(stream)) + 1]

\* step, lines 241-251, on a tick that is due, with captureAndAnalyze, lines
\* 275-326, and its call of analyzeImageData: f is the frame of the video.
step(f) ==
    IF FrameAvailable(f)
    THEN LET a == analyzeImageData(historyRef, brightnessHistoryRef,
                                   varianceHistoryRef, f)
         IN  /\ analyzed < MaxFrames
             /\ historyRef' = a.historyRef
             /\ brightnessHistoryRef' = a.brightnessHistoryRef
             /\ varianceHistoryRef' = a.varianceHistoryRef
             /\ analyzed' = analyzed + 1
             /\ noFrame' = ~(f.ready /\ f.w # 0 /\ f.h # 0)
             /\ analysis' = a.result
             /\ warnings' = a.result.warnings
             /\ UNCHANGED lighting
             /\ UNCHANGED stream
             /\ UNCHANGED serverVars
             /\ UNCHANGED workerVars
             /\ captureAndAnalyze(Scale * a.result.mappedScore, a.result.conf)
    ELSE /\ rafActive
         /\ noFrame' = ~(f.ready /\ f.w # 0 /\ f.h # 0)
         /\ analysis' = NoAnalysis
         /\ UNCHANGED <<score, voiceEnabled, userActivatedAudio, apiMode,
                        apiPending, apiError, stableRef, consecutiveStableRef,
                        backoffRef, sinceApi, onLine, inflight, rafActive,
                        pros, cons, confidence, mounted, cb, binding>>
         /\ UNCHANGED <<historyRef, brightnessHistoryRef, varianceHistoryRef,
                        stream, analyzed, lighting, warnings>>
         /\ UNCHANGED serverVars
         /\ UNCHANGED workerVars
         /\ op' = "skip"
         /\ resp' = NoData
         /\ spoken' = Null
         /\ started' = FALSE
         /\ opened' = FALSE
         /\ preBackoff' = backoffRef
         /\ UNCHANGED <<sinceStart, enabledSince, heldSpoken>>

\* img.onload of handleImageUpload, lines 385-410, with its call of
\* analyzeImageData: f is the uploaded image.
imageLoaded(f) ==
    LET a == analyzeImageData(historyRef, brightnessHistoryRef,
                              varianceHistoryRef, f)
    IN  /\ analyzed < MaxFrames
        /\ historyRef' = a.historyRef
        /\ brightnessHistoryRef' = a.brightnessHistoryRef
        /\ varianceHistoryRef' = a.varianceHistoryRef
        /\ analyzed' = analyzed + 1
        /\ analysis' = a.result
        /\ lighting' = a.result.lightingState
        /\ warnings' = a.result.warnings
        /\ noFrame' = FALSE
        /\ UNCHANGED stream
        /\ UNCHANGED serverVars
        /\ UNCHANGED workerVars
        /\ handleImageUpload(Scale * a.result.mappedScore, a.result.conf)

\* The analyze endpoint handles request rq; key tells whether OPENAI_API_KEY
\* is set in its environment.
handler(rq, key) ==
    /\ req' = rq
    /\ env' = key
    /\ res' = Handle(rq, key)
    /\ UNCHANGED <<rawResult, normResult>>
    /\ UNCHANGED workerVars
    /\ UNCHANGED <<score, voiceEnabled, userActivatedAudio, apiMode,
                   apiPending, apiError, stableRef, consecutiveStableRef,
                   backoffRef, sinceApi, onLine, inflight, rafActive, pros,
                   cons, confidence, mounted, cb, binding, op, spoken, resp,
                   started, opened, preBackoff, sinceStart, enabledSince,
                   heldSpoken>>
    /\ UNCHANGED analyzerVars

\* normalizeResult is handed the value raw
normalize(raw) ==
    /\ rawResult' = raw
    /\ normResult' = normalizeResult(raw)
    /\ UNCHANGED <<req, env, res>>
    /\ UNCHANGED <<score, voiceEnabled, userActivatedAudio, apiMode,
                   apiPending, apiError, stableRef, consecutiveStableRef,
                   backoffRef, sinceApi, onLine, inflight, rafActive, pros,
                   cons, confidence, mounted, cb, binding, op, spoken, resp,
                   started, opened, preBackoff, sinceStart, enabledSince,
                   heldSpoken>>
    /\ UNCHANGED analyzerVars
    /\ UNCHANGED workerVars

\* normalizeResult is handed the result it returned last
renormalize ==
    /\ normResult # NoResult
    /\ normalize(AsRaw(normResult))

\* The service worker receives the fetch event e.
onFetch(e) ==
    /\ swRequest' = e
    /\ swResponse' = OnFetch(e, swCache)
    /\ swCache' = IF OnFetch(e, swCache).stored THEN swCache \cup {e.url}
                  ELSE swCache
    /\ UNCHANGED <<score, voiceEnabled, userActivatedAudio, apiMode,
                   apiPending, apiError, stableRef, consecutiveStableRef,
                   backoffRef, sinceApi, onLine, inflight, rafActive, pros,
                   cons, confidence, mounted, cb, binding, op, spoken, resp,
                   started, opened, preBackoff, sinceStart, enabledSince,
                   heldSpoken>>
    /\ UNCHANGED analyzerVars
    /\ UNCHANGED serverVars

\* The browser evicts the origin's cache storage.
evict ==
    /\ swCache # {}
    /\ swCache' = {}
    /\ swRequest' = NoFetch
    /\ swResponse' = NoResponse
    /\ UNCHANGED <<score, voiceEnabled, userActivatedAudio, apiMode,
                   apiPending, apiError, stableRef, consecutiveStableRef,
                   backoffRef, sinceApi, onLine, inflight, rafActive, pros,
                   cons, confidence, mounted, cb, binding, op, spoken, resp,
                   started, opened, preBackoff, sinceStart, enabledSince,
                   heldSpoken>>
    /\ UNCHANGED analyzerVars
    /\ UNCHANGED serverVars

\* Date.now() advances by d ms
clockAdvance(d) ==
    /\ d > 0
    /\ sinceApi' = Min(ElapsedCap, sinceApi + d)
    /\ sinceStart' = Min(ElapsedCap, sinceStart + d)
    /\ UNCHANGED <<score, voiceEnabled, userActivatedAudio, apiMode,
                   apiPending, apiError, stableRef, consecutiveStableRef,
                   backoffRef, onLine, inflight, rafActive, pros, cons,
                   confidence, mounted, cb, binding>>
    /\ op' = "other"
    /\ resp' = NoData
    /\ spoken' = Null
    /\ started' = FALSE
    /\ opened' = FALSE
    /\ preBackoff' = backoffRef
    /\ UNCHANGED <<enabledSince, heldSpoken>>
    /\ UNCHANGED analyzerVars
    /\ UNCHANGED serverVars
    /\ UNCHANGED workerVars

\* the connectivity signal navigator.onLine changes
connectivity ==
    /\ onLine' = ~onLine
    /\ UNCHANGED <<score, voiceEnabled, userActivatedAudio, apiMode,
                   apiPending, apiError, stableRef, consecutiveStableRef,
                   backoffRef, sinceApi, inflight, rafActive, pros, cons,
                   confidence, mounted, cb, binding>>
    /\ op' = "other"
    /\ resp' = NoData
    /\ spoken' = Null
    /\ started' = FALSE
    /\ opened' = FALSE
    /\ preBackoff' = backoffRef
    /\ UNCHANGED <<sinceStart, enabledSince, heldSpoken>>
    /\ UNCHANGED analyzerVars
    /\ UNCHANGED serverVars
    /\ UNCHANGED workerVars

\* stopCamera(); startCamera(): the R key (line 206) and the orientationchange
\* handler (lines 192-195).  stopCamera, lines 229-234, cancels the pending
\* requestAnimationFrame(step); startCamera, lines 212-227, requests none.
restartCamera ==
    /\ mounted
    /\ rafActive' = FALSE
    /\ UNCHANGED <<score, voiceEnabled, userActivatedAudio, apiMode,
                   apiPending, apiError, stableRef, consecutiveStableRef,
                   backoffRef, sinceApi, onLine, inflight, pros, cons,
                   confidence, mounted, cb, binding>>
    /\ op' = "other"
    /\ resp' = NoData
    /\ spoken' = Null
    /\ started' = FALSE
    /\ opened' = FALSE
    /\ preBackoff' = backoffRef
    /\ UNCHANGED <<sinceStart, enabledSince, heldSpoken>>
    /\ UNCHANGED analyzerVars
    /\ UNCHANGED serverVars
    /\ UNCHANGED workerVars

\* The component is unmounted: the cleanups of the effects run (stopCamera,
\* line 187; cancelAnimationFrame, line 254; the listeners are removed).  A
\* call in flight is not cancelled.
unmount ==
    /\ mounted
    /\ mounted' = FALSE
    /\ rafActive' = FALSE
    /\ UNCHANGED <<score, voiceEnabled, userActivatedAudio, apiMode,
                   apiPending, apiError, stableRef, consecutiveStableRef,
                   backoffRef, sinceApi, onLine, inflight, pros, cons,
                   confidence, cb, binding>>
    /\ op' = "other"
    /\ resp' = NoData
    /\ spoken' = Null
    /\ started' = FALSE
    /\ opened' = FALSE
    /\ preBackoff' = backoffRef
    /\ UNCHANGED <<sinceStart, enabledSince, heldSpoken>>
    /\ UNCHANGED analyzerVars
    /\ UNCHANGED serverVars
    /\ UNCHANGED workerVars

Responses ==
    {Data(s, p, c, f) : s \in ResponseScores, p \in ResponseLists,
                        c \in ResponseLists, f \in ResponseConfidences}

Next ==
    \/ \E M \in MappedScores, conf \in LocalConfs : sampled(M, conf)
    \/ \E data \in Responses : apiSuccess(data)
    \/ \E r \in FailureReasons : apiFailure(r)
    \/ toggleVoice
    \/ toggleApi
    \/ \E M \in MappedScores, conf \in LocalConfs : uploaded(M, conf)
    \/ \E t \in Instants : clockAdvance(t - sinceApi) \/ clockAdvance(t - sinceStart)
    \/ connectivity
    \/ restartCamera
    \/ unmount
    \/ \E f \in NoFrames : step(f)

\* The application under every input of the bounded sets.
Spec == Init /\ [][Next]_vars

\* attemptApiAnalyze reads and writes apiMode, apiPending, apiError,
\* lastApiRef, backoffRef and navigator.onLine and nothing of the gate; the
\* gate reads nothing of the remote call but the score a response merges.
\* The two specifications below run every operation of the application and
\* restrict the inputs of the part the other one explores.

\* The remote call under every timing, failure and toggle: every frame and
\* upload maps to the same score and responses carry no score.
NextRemote ==
    \/ sampled(Scale * ScoreLo, (6 * Unit) \div 10)
    \/ apiSuccess(NoData)
    \/ \E r \in FailureReasons : apiFailure(r)
    \/ toggleVoice
    \/ toggleApi
    \/ uploaded(Scale * ScoreLo, (6 * Unit) \div 10)
    \/ \E t \in Instants : clockAdvance(t - sinceApi) \/ clockAdvance(t - sinceStart)
    \/ connectivity
    \/ restartCamera

SpecRemote == Init /\ [][NextRemote]_vars

\* The gate under every mapped score, upload and merged response: the clock
\* stands still, calls do not fail, connectivity and the camera stay up.
NextGate ==
    \/ \E M \in MappedScores : sampled(M, (6 * Unit) \div 10)
    \/ \E s \in ResponseScores : apiSuccess(Data(s, NotArray, NotArray, Null))
    \/ toggleVoice
    \/ toggleApi
    \/ \E M \in MappedScores : uploaded(M, (6 * Unit) \div 10)

SpecGate == Init /\ [][NextGate]_vars

\* The merge of a response under every displayed score and every shape of
\* the response: the clock stands still and calls do not fail.
MergeResponses ==
    {Data(sc, l, NotArray, Null) : sc \in ResponseScores, l \in ResponseLists}
    \cup {Data(Null, NotArray, l, f) : l \in ResponseLists, f \in ResponseConfidences}

NextMerge ==
    \/ \E M \in MappedScores : sampled(M, (6 * Unit) \div 10)
    \/ \E data \in MergeResponses : apiSuccess(data)
    \/ toggleApi

SpecMerge == Init /\ [][NextMerge]_vars

\* The remote call around the unmounting of the component.
NextTeardown ==
    \/ sampled(Scale * ScoreLo, (6 * Unit) \div 10)
    \/ apiSuccess(Data(Num(ScoreHi * Scale), List(<<10>>), List(<<10>>), Num(65 * Scale)))
    \/ \E r \in FailureReasons : apiFailure(r)
    \/ toggleApi
    \/ \E t \in Instants : clockAdvance(t - sinceApi)
    \/ connectivity
    \/ unmount

SpecTeardown == Init /\ [][NextTeardown]_vars

\* The analyzer behind the loop as wired and behind the uploads: the camera
\* and the uploads deliver the frames of the stream, and ticks come without a
\* frame.
NextAnalyzer ==
    \/ step(NextFrame)
    \/ \E f \in NoFrames : step(f)
    \/ imageLoaded(NextFrame)

SpecAnalyzer == InitAnalyzer /\ [][NextAnalyzer]_vars

SpecExamples == InitExamples /\ [][NextAnalyzer]_vars

\* The analyze endpoint under every request and both configurations.
NextEndpoint ==
    \E rq \in Requests, key \in BOOLEAN : handler(rq, key)

SpecEndpoint == Init /\ [][NextEndpoint]_vars

\* A model identifier: none, empty, short, longer than ModelCap
RawModels == {NotString, Str(""), Str("gpt-4.1-mini"), Str(LongModel)}

\* A list field: not an array, entries that are not strings among strings,
\* more entries than ListCap, an entry longer than EntryCap
RawLists ==
    {NotArray, List(<<-1, 12, -1>>), List(<<9, 9, 9, 9, 9, 9, 9>>),
     List(<<EntryCap + 1>>)}

\* A number field: not a number, NaN, below, inside (with a fraction) and
\* above both ranges
RawNumbers == {Null, NaN, Num(-3 * Scale), Num(6 * Scale + 1), Num(250 * Scale)}

\* the values handed to normalizeResult
Raws ==
    {NoRaw} \cup
    {Raw(sc, conf, p, c, m) :
        sc \in RawNumbers, conf \in {Null, NaN, Num(65 * Scale + 1)},
        p \in RawLists, c \in {NotArray, List(<<-1, EntryCap + 1>>)},
        m \in RawModels}

\* normalizeResult under every value, its own results included.
NextNormalize ==
    \/ \E raw \in Raws : normalize(raw)
    \/ renormalize

SpecNormalize == Init /\ [][NextNormalize]_vars

\* The service worker under every fetch event, the cache evicted at times.
NextWorker ==
    \/ \E e \in FetchEvents : onFetch(e)
    \/ evict

SpecWorker == Init /\ [][NextWorker]_vars

\* The sampling loop as wired: the callbacks of the first render capture
\* apiMode = false, so no call is ever in flight, no completion occurs and
\* the throttle's clock stays saturated.
NextLoop ==
    \/ \E M \in MappedScores : sampled(M, (6 * Unit) \div 10)
    \/ toggleVoice
    \/ toggleApi
    \/ \E M \in MappedScores : uploaded(M, (6 * Unit) \div 10)
    \/ connectivity
    \/ restartCamera

SpecLoop == InitLoop /\ [][NextLoop]_vars

\* The loop as wired when nothing but its ticks writes the score: no image
\* is uploaded (and, as wired, no response is ever merged).
NextTicks ==
    \/ \E M \in MappedScores : sampled(M, (6 * Unit) \div 10)
    \/ toggleVoice
    \/ toggleApi
    \/ connectivity
    \/ restartCamera

SpecTicks == InitLoop /\ [][NextTicks]_vars

---------------------------------------------------------------------------
\* Properties

RemoteCallState == <<apiPending, apiError, sinceApi, backoffRef, inflight>>

\* C1: at most one remote call is in flight, and a sampling tick that
\* triggers attemptApiAnalyze while a call is pending starts no attempt and
\* changes nothing of the remote-call state (pending flag, error, last-attempt
\* timestamp, backoff, calls in flight).
C1_OneCallInFlight ==
    [][/\ inflight' <= 1
       /\ (op' = "tick" /\ apiPending) =>
              (~started' /\ UNCHANGED RemoteCallState)]_vars

\* C1, witness: a tick triggered attemptApiAnalyze while a call was pending
\* and every other guard (API mode, connectivity, throttle) was open.
C1_Witness ==
    /\ op = "tick" /\ ~started
    /\ apiPending /\ inflight = 1
    /\ apiMode /\ onLine
    /\ sinceApi >= baseInterval + backoffRef

C3_SuccessResetsBackoff ==
    [][/\ op' = "success" => backoffRef' = 0
       /\ (op' = "tick" /\ backoffRef = 0 /\ apiMode /\ ~apiPending /\ onLine) =>
              (started' <=> sinceApi >= baseInterval)]_vars

\* C3, witness: a success arrived with the backoff at its ceiling.
C3_Witness ==
    op = "success" /\ preBackoff = BackoffCeiling /\ backoffRef = 0

C6_AnnounceOnlyWhenGated ==
    [][spoken' # Null =>
          /\ op' = "tick"
          /\ consecutiveStableRef' >= 2
          /\ voiceEnabled /\ userActivatedAudio
          /\ spoken' # score
          /\ stableRef # Null]_vars

\* C6, witness: a tick announced a score.
C6_Witness ==
    op = "tick" /\ spoken # Null /\ spoken = score

C8_ScoreChangesOnlyOnAnnounce ==
    [][(op' = "tick" /\ score' # score) => spoken' = score']_vars

\* C9 (as claimed): when a tick produced a score M that differed from the
\* displayed score and the next tick produces M again, with voice enabled and
\* the user having toggled voice, the second tick announces M.  (After the
\* first tick the displayed score is M, and a tick that leaves the displayed
\* score unchanged produced that score.)
C9_SecondTickAnnounces ==
    [][(/\ op = "tick" /\ opened
        /\ op' = "tick" /\ score' = score
        /\ voiceEnabled /\ userActivatedAudio) => spoken' = score']_vars

C15_NoAttemptWhenOffOrOffline ==
    [][(op' = "tick" /\ (~apiMode \/ ~onLine)) =>
          (~started' /\ UNCHANGED <<apiPending, sinceApi, inflight>>)]_vars

\* C15, witness: a tick triggered attemptApiAnalyze offline while API mode
\* was on, nothing was pending and the throttle was open.
C15_Witness ==
    /\ op = "tick" /\ ~started
    /\ apiMode /\ ~onLine /\ ~apiPending /\ inflight = 0
    /\ sinceApi >= baseInterval + backoffRef

C17_MergeRule ==
    [][(op' = "success" /\ resp'.score # Null) =>
          score' = IF score = Null \/ Abs(Val(resp'.score) - Val(score)) >= Scale
                   THEN resp'.score ELSE score]_vars

\* C17, witness: a response carried a score less than 1 away from the
\* displayed one, which stayed.
C17_Witness ==
    op = "success" /\ resp.score # Null /\ score # Null /\ score # resp.score

C12_WindowsBounded ==
    [][/\ Len(historyRef') = Min(analyzed', HistoryCap)
       /\ Len(brightnessHistoryRef') = Min(analyzed', LightCap)
       /\ Len(varianceHistoryRef') = Min(analyzed', LightCap)
       /\ analyzed' = analyzed + 1 =>
            /\ Len(historyRef) = HistoryCap =>
                  SubSeq(historyRef', 1, HistoryCap - 1) = Tail(historyRef)
            /\ Len(brightnessHistoryRef) = LightCap =>
                  SubSeq(brightnessHistoryRef', 1, LightCap - 1)
                      = Tail(brightnessHistoryRef)
            /\ Len(varianceHistoryRef) = LightCap =>
                  SubSeq(varianceHistoryRef', 1, LightCap - 1)
                      = Tail(varianceHistoryRef)]_vars

\* C12, witness: more calls than the larger capacity were made and the full
\* windows hold entries that differ from one another.
C12_Witness ==
    /\ analyzed > LightCap + 1
    /\ Len(historyRef) = HistoryCap
    /\ Len(brightnessHistoryRef) = LightCap
    /\ historyRef[1] # historyRef[2]
    /\ brightnessHistoryRef[1] # brightnessHistoryRef[2]
    /\ varianceHistoryRef[1] # varianceHistoryRef[2]

\* C13: whatever analyzeImageData returns, under every lighting state, the
\* smoothed value is in [0,1] and the mapped score is an integer in [1,10].
C13_SmoothedAndMappedInRange ==
    analysis # NoAnalysis =>
        /\ analysis.smoothed \in 0..Unit
        /\ analysis.mappedScore \in ScoreLo..ScoreHi

\* C13, witness: with the history window full and the lighting degraded, the
\* analyzer returned a score above the lowest one.
C13_Witness ==
    /\ analysis # NoAnalysis
    /\ Len(historyRef) = HistoryCap
    /\ analysis.lightingState \in {"Too Dark", "Too Bright", "Low Texture"}
    /\ analysis.mappedScore > ScoreLo

\* C14: every confidence analyzeImageData returns is in [0.2, 1], with both
\* penalties applied or not, and the percentage round(conf * 100) that a tick
\* and an upload display is in [0,100].
C14_ConfidenceInRange ==
    analysis # NoAnalysis =>
        /\ analysis.conf \in ((2 * Unit) \div 10)..Unit
        /\ confidence = Round(analysis.conf * 100, Unit)
        /\ confidence \in 0..100

\* C14, witness: in a scene without texture (both penalties apply) the
\* confidence came out at its floor.
C14_Witness ==
    /\ analysis # NoAnalysis
    /\ analysis.lightingState = "Low Texture"
    /\ analysis.conf = (2 * Unit) \div 10

\* C19: a scheduling tick that finds no frame (the video not ready, a width or
\* a height of 0) gets no analysis and changes no window, nothing of the gate,
\* nothing displayed and nothing of the remote-call state.
C19_NoFrameNoEffect ==
    [][(op' \in {"tick", "skip"} /\ noFrame') =>
          /\ analysis' = NoAnalysis
          /\ UNCHANGED <<historyRef, brightnessHistoryRef, varianceHistoryRef,
                         analyzed, stableRef, consecutiveStableRef, score,
                         pros, cons, confidence, apiPending, apiError,
                         sinceApi, backoffRef, inflight>>]_vars

\* C19, witness: a tick found no frame after frames had been analysed and a
\* score was displayed.
C19_Witness ==
    op = "skip" /\ noFrame /\ analyzed > 0 /\ score # Null

\* C20 (as claimed): the endpoint answers every request whose method is not
\* POST with status 405, whatever the rest of the request and the
\* configuration.
C20_NonPostIs405 ==
    (res # NoAnswer /\ req.method # "POST") => res.statusCode = 405

\* C20 (amended): with OPENAI_API_KEY set the endpoint answers every request
\* whose method is not POST (a missing method included) with status 405,
\* whatever the rest of the request; without the key it answers such a request
\* with status 500.
C20_NonPostIs405WithKey ==
    (res # NoAnswer /\ req.method # "POST") =>
        res.statusCode = IF env THEN 405 ELSE 500

\* C20, witness: a request without a method, carrying an image above the
\* size limit, was answered 405.
C20_Witness ==
    /\ res # NoAnswer /\ env
    /\ req.method = "" /\ req.parsed = "object"
    /\ req.image * 3 > MaxImageBytes * 4
    /\ res.statusCode = 405

\* C21 (as claimed, for a POST with a JSON object as body to an endpoint that
\* has its key): a request whose image is larger than 400,000 bytes is
\* answered 413 without a result, and a request whose image is at most
\* 400,000 bytes is not answered 413.
C21_SizeLimit ==
    (res # NoAnswer /\ env /\ req.method = "POST" /\ req.parsed = "object") =>
        /\ req.bytes > MaxImageBytes =>
               res.statusCode = 413 /\ res.result = NoResult
        /\ req.bytes <= MaxImageBytes => res.statusCode # 413

\* C21 (amended): such a request is answered 413, without a result, exactly
\* when three quarters of the length of image_base64 exceed 400,000; hence an
\* image larger than 400,000 bytes is answered 413 and an image smaller than
\* 400,000 bytes is not.
C21_SizeLimitByLength ==
    (res # NoAnswer /\ env /\ req.method = "POST" /\ req.parsed = "object") =>
        /\ res.statusCode = 413 <=>
               (req.image # 0 /\ req.image * 3 > MaxImageBytes * 4)
        /\ res.statusCode = 413 =>
               res.result = NoResult /\ res.error = "Image too large"
        /\ req.bytes > MaxImageBytes => res.statusCode = 413
        /\ req.bytes < MaxImageBytes => res.statusCode # 413

\* C21, witness: an image of exactly 400,000 bytes was answered 413.
C21_Witness ==
    /\ res # NoAnswer /\ env
    /\ req.method = "POST" /\ req.parsed = "object"
    /\ req.bytes = MaxImageBytes
    /\ res.statusCode = 413

C23_MockResult ==
    res.statusCode = 200 =>
        /\ res.result.score = Num(7 * Scale)
        /\ res.result.confidence = Num(65 * Scale)
        /\ res.result.model =
               Str(IF req.parsed = "object" /\ req.use_model /\ req.image # 0
                   THEN "fallback-mock" ELSE "placeholder-mock")
        /\ res.result.model # Str("normalized")

\* C23, witness: a request that asked for the model and carried an image was
\* answered 200 with the tag 'fallback-mock'.
C23_Witness ==
    /\ res.statusCode = 200
    /\ req.parsed = "object" /\ req.use_model /\ req.image # 0
    /\ res.result.model = Str("fallback-mock")

C25_CacheFirst ==
    LET wasCached == swRequest.url \in swCache /\ ~swResponse.stored
    IN  /\ (swRequest # NoFetch /\ swRequest.method = "GET"
            /\ swRequest.mode # "navigate") =>
               /\ swResponse.responded
               /\ wasCached =>
                      /\ swResponse.response = "cached"
                      /\ ~swResponse.fetched
               /\ (~wasCached /\ swRequest.network # "fails") =>
                      /\ swResponse.fetched
                      /\ swResponse.response = "network"
               /\ swResponse.stored =>
                      /\ swRequest.network = "ok"
                      /\ swRequest.url.origin = "same"
        /\ (swRequest # NoFetch /\ swRequest.method # "GET") =>
               ~swResponse.responded /\ ~swResponse.stored

\* C26: with B the trimmed-mean brightness and V the trimmed-mean variance,
\* the label is 'Too Dark' iff B < 0.12, 'Too Bright' iff B > 0.85,
\* 'Low Texture' iff 0.12 <= B <= 0.85 and V < 0.002, and 'OK' otherwise; a
\* label other than 'OK' comes with exactly one advisory, 'OK' with none.
C26_LightingLabel ==
    analysis # NoAnalysis =>
        LET B == analysis.avgBrightness
            V == analysis.avgVariance
            dark == B * 100 < 12 * Unit
            bright == B * 100 > 85 * Unit
            flat == V * 1000 < 2 * Unit
        IN  /\ B = trimmedMean(brightnessHistoryRef, 15)
            /\ V = trimmedMean(varianceHistoryRef, 15)
            /\ analysis.lightingState = "Too Dark" <=> dark
            /\ analysis.lightingState = "Too Bright" <=> bright
            /\ analysis.lightingState = "Low Texture" <=>
                   (~dark /\ ~bright /\ flat)
            /\ analysis.lightingState = "OK" <=> (~dark /\ ~bright /\ ~flat)
            /\ Len(analysis.warnings) =
                   IF analysis.lightingState = "OK" THEN 0 ELSE 1

\* C26, witness: a scene both too dark and without texture was labelled
\* 'Too Dark' and got one advisory.
C26_Witness ==
    /\ analysis.lightingState = "Too Dark"
    /\ analysis.avgBrightness * 100 < 12 * Unit
    /\ analysis.avgVariance * 1000 < 2 * Unit
    /\ analysis.warnings = <<"Increase lighting">>

\* C27: the entry a call of analyzeImageData leaves at the end of the history
\* window is, when the label is not 'OK', 0.7 x (the median of the window as
\* it was before the call) + 0.3 x (the raw score of the frame), and the raw
\* score itself when the label is 'OK'.
C27_BlendWithPriorMedian ==
    [][analyzed' = analyzed + 1 =>
          historyRef'[Len(historyRef')] =
              IF analysis'.lightingState # "OK"
              THEN (median(historyRef) * 7 + analysis'.rawScore * 3) \div 10
              ELSE analysis'.rawScore]_vars

\* C28: the smoothed value is the median of the entries of the history window
\* that lie within 1.5 interquartile ranges of its median, and the median of
\* the whole window when no entry does.
C28_SmoothedIsFilteredMedian ==
    analysis # NoAnalysis =>
        LET sorted == Sorted(historyRef)
            n == Len(sorted)
            med == sorted[(n \div 2) + 1]
            iqr == sorted[((3 * n) \div 4) + 1] - sorted[(n \div 4) + 1]
            kept == SelectSeq(historyRef,
                              LAMBDA x : /\ 2 * (med - x) <= 3 * iqr
                                         /\ 2 * (x - med) <= 3 * iqr)
        IN  analysis.smoothed = median(IF kept = <<>> THEN historyRef ELSE kept)

\* C28, witness: the filter dropped an entry and the smoothed value is not
\* the median of the whole window.
C28_Witness ==
    /\ analysis # NoAnalysis
    /\ Len(Filtered(historyRef)) < Len(historyRef)
    /\ analysis.smoothed # median(historyRef)

\* C29 (as claimed): when the label is 'Too Dark' with a trimmed-mean
\* brightness of 0.05, the confidence returned is exactly 0.7 times the
\* confidence analyzeImageData computes for the same frame, window and
\* variance under the label 'OK'.
C29_DarkIsSevenTenths ==
    (/\ analysis.lightingState = "Too Dark"
     /\ analysis.avgBrightness = Unit \div 20
     /\ analysis.avgVariance * 1000 >= 2 * Unit) =>
        analysis.conf =
            (7 * Confidence(LastFrame, historyRef, "OK", analysis.avgVariance))
                \div 10

\* C29 (amended): when the label is 'Too Dark' and the variance is not low,
\* the confidence returned is the larger of the floor 0.2 and 0.7 times the
\* confidence computed for the same frame, window and variance under 'OK'.
C29_DarkIsSevenTenthsOrFloor ==
    (/\ analysis.lightingState = "Too Dark"
     /\ analysis.avgVariance * 1000 >= 2 * Unit) =>
        analysis.conf =
            Max((2 * Unit) \div 10,
                (7 * Confidence(LastFrame, historyRef, "OK",
                                analysis.avgVariance)) \div 10)

\* C29, witness: a dark scene of brightness 0.05 whose confidence is 0.7
\* times that under 'OK' and above the floor.
C29_Witness ==
    /\ analysis.lightingState = "Too Dark"
    /\ analysis.avgBrightness = Unit \div 20
    /\ analysis.avgVariance * 1000 >= 2 * Unit
    /\ analysis.conf > (2 * Unit) \div 10
    /\ analysis.conf =
           (7 * Confidence(LastFrame, historyRef, "OK", analysis.avgVariance))
               \div 10

\* C30 (as claimed): whenever the ten frames analysed last had the channel
\* averages r = 0.10, g = 0.60, b = 0.15, the mapped score is 7 and the
\* confidence is greater than 0.6.
C30_LeafyTenth ==
    (/\ analysis # NoAnalysis
     /\ analyzed >= 10
     /\ \A i \in (analyzed - 10)..(analyzed - 1) :
            LET f == stream[(i % Len(stream)) + 1]
            IN  /\ f.r = Unit \div 10
                /\ f.g = (6 * Unit) \div 10
                /\ f.b = (15 * Unit) \div 100) =>
        /\ analysis.mappedScore = 7
        /\ analysis.conf * 10 > 6 * Unit

\* C30 (amended): when the first ten frames analysed since the component
\* mounted had these channel averages and a luminance variance of at least
\* 0.002, then on the tenth the label is 'OK', the mapped score is 7 and the
\* confidence is greater than 0.6.
C30_LeafyFirstTenTextured ==
    (/\ analysis # NoAnalysis
     /\ analyzed = 10
     /\ \A i \in 0..9 :
            LET f == stream[(i % Len(stream)) + 1]
            IN  /\ f.r = Unit \div 10
                /\ f.g = (6 * Unit) \div 10
                /\ f.b = (15 * Unit) \div 100
                /\ f.v * 1000 >= 2 * Unit) =>
        /\ analysis.lightingState = "OK"
        /\ analysis.mappedScore = 7
        /\ analysis.conf * 10 > 6 * Unit

\* C30, witness: the tenth frame of the textured leafy scene got the mapped
\* score 7 and a confidence above 0.6.
C30_Witness ==
    /\ stream = <<Leafy>>
    /\ analyzed = 10
    /\ analysis.mappedScore = 7
    /\ analysis.conf * 10 > 6 * Unit

\* C31: after every live sampling tick that produced an analysis, the
\* lighting label and the advisories displayed are those of that analysis.
C31_LightingDisplayed ==
    (op = "tick" /\ analysis # NoAnalysis) =>
        /\ lighting = analysis.lightingState
        /\ warnings = analysis.warnings

\* C37: after every analysis the entries the IQR filter keeps include the
\* median of the history window, so they are not empty, and the smoothed value
\* is one of the entries of the window.
C37_FilterKeepsMedian ==
    analysis # NoAnalysis =>
        /\ historyRef # <<>>
        /\ Filtered(historyRef) # <<>>
        /\ \E i \in 1..Len(Filtered(historyRef)) :
               Filtered(historyRef)[i] = median(historyRef)
        /\ \E i \in 1..Len(historyRef) : historyRef[i] = analysis.smoothed

\* C37, witness: a window whose interquartile range is 0 and from which the
\* filter dropped an entry.
C37_Witness ==
    /\ analysis # NoAnalysis
    /\ Len(historyRef) >= 4
    /\ Sorted(historyRef)[((Len(historyRef) * 3) \div 4) + 1]
           = Sorted(historyRef)[(Len(historyRef) \div 4) + 1]
    /\ Len(Filtered(historyRef)) < Len(historyRef)
    /\ Filtered(historyRef) # <<>>

\* C32: a sampling tick taken while API mode is enabled, connectivity is
\* available, no call is pending and the base interval plus the backoff has
\* elapsed starts a remote attempt.
C32_EnabledModeStartsAttempt ==
    [][(/\ op' = "tick"
        /\ apiMode /\ onLine /\ ~apiPending
        /\ sinceApi >= baseInterval + backoffRef) => started']_vars

\* C33: the sampling loop survives a camera restart: as long as the component
\* is mounted a request for the next scheduling tick is pending, so that a
\* later tick with a ready frame runs the analysis.
C33_LoopSurvivesRestart ==
    mounted => rafActive

\* C34: every completion of a remote attempt, successful or failed, clears
\* the pending flag, and the flag is never set while no attempt is under way,
\* neither in the state nor in the callbacks the next tick runs.
C34_PendingCleared ==
    /\ [](inflight = 0 => (~apiPending /\ ~cb.apiPending))
    /\ [][op' \in {"success", "failure"} => ~apiPending']_vars

\* C34, witness: an attempt has failed and left no call pending.
C34_Witness ==
    /\ op = "failure"
    /\ apiError # ""
    /\ inflight = 0
    /\ ~apiPending

\* C35: when nothing but the sampling ticks writes the displayed score, the
\* value held by the gate equals the displayed score and the
\* consecutive-stable counter is at most 1.
C35_HeldIsDisplayed ==
    stableRef = score /\ consecutiveStableRef <= 1

\* C35, witness: a tick passed the gate with a score other than the one
\* displayed before.
C35_Witness ==
    /\ op = "tick" /\ opened
    /\ score # Null /\ stableRef = score
    /\ consecutiveStableRef = 1

\* C36: every sampling tick that produces an analysis, the first one after a
\* merged response included, sets the displayed pros, cons and confidence to
\* the values derived from a local analysis, whatever they were before.
C36_LocalOverridesRemote ==
    [][op' = "tick" =>
          \E M \in MappedScores, conf \in LocalConfs :
              /\ pros' = DescribePros(M)
              /\ cons' = DescribeCons(M, conf)
              /\ confidence' = Round(conf * 100, Unit)
              /\ opened' => score' = Num(M)]_vars

\* C36, witness: a tick that followed a merged response, whose score is
\* still displayed, has set the local pros, cons and confidence.
C36_Witness ==
    /\ op = "tick"
    /\ score # Null /\ Val(score) % Scale # 0
    /\ \E M \in MappedScores :
           /\ pros = DescribePros(M)
           /\ cons = DescribeCons(M, (6 * Unit) \div 10)
    /\ confidence = 60

\* C38: normalizeResult handed a result it returned returns that result:
\* score, confidence, pros, cons and model are unchanged.
C38_Idempotent ==
    [][(normResult # NoResult /\ rawResult' = AsRaw(normResult)) =>
          normResult' = normResult]_vars

\* C38, witness: normalizeResult was handed a result of its own with lists
\* at the cap and returned it.
C38_Witness ==
    /\ normResult # NoResult
    /\ rawResult = AsRaw(normResult)
    /\ Len(normResult.pros) = ListCap

====
